---- MODULE Spec2Model ----
(***************************************************************************)
(* Model of src/hash/mod.rs: the 160 bit SubotaiHash, its constructors,    *)
(* height, flip_bit, XOR, ordering, the four bit iterators and             *)
(* random_at_distance.                                                     *)
(*                                                                         *)
(* A hash is its `raw` array: a function from 0..HASH_SIZE_BYTES-1 to      *)
(* bytes.  Option<T> is a sequence of length 0 (None) or 1 (Some(x)).      *)
(* std::cmp::Ordering is one of the strings "Less", "Equal", "Greater".    *)
(***************************************************************************)
EXTENDS Integers, Sequences, FiniteSets, TLC

HASH_SIZE == 160

HASH_SIZE_BYTES == HASH_SIZE \div 8

None == << >>

Some(x) == << x >>

Less == "Less"

Equal == "Equal"

Greater == "Greater"

(***************************************************************************)
(* u8 arithmetic: bit k of a byte, `1 << k`, `x ^ y`, `x & y`.             *)
(***************************************************************************)
Bit(x, k) == (x \div (2 ^ k)) % 2

Shl(x, k) == (x * (2 ^ k)) % 256

ByteXor(x, y) ==
  LET T(k) == ((Bit(x, k) + Bit(y, k)) % 2) * (2 ^ k)
  IN  T(0) + T(1) + T(2) + T(3) + T(4) + T(5) + T(6) + T(7)

ByteAnd(x, y) ==
  LET T(k) == (Bit(x, k) * Bit(y, k)) * (2 ^ k)
  IN  T(0) + T(1) + T(2) + T(3) + T(4) + T(5) + T(6) + T(7)

\* byte & (1 << bit): the bit stays in place, every other bit is cleared.
MaskBit(byte, bit) == Bit(byte, bit) * (2 ^ bit)

ByteCmp(x, y) == IF x < y THEN Less ELSE IF x > y THEN Greater ELSE Equal

(***************************************************************************)
(* Constructors.                                                           *)
(***************************************************************************)
blank == [i \in 0 .. HASH_SIZE_BYTES - 1 |-> 0]

\* The body of random(): the fill_bytes call is commented out in the source,
\* so the hash that was created blank is returned as it is.
random == blank

(***************************************************************************)
(* height: the last nonzero byte, then its highest set bit.                *)
(***************************************************************************)
RECURSIVE last_nonzero_byte(_, _)
last_nonzero_byte(self, i) ==
  IF i < 0 THEN None
  ELSE IF self[i] # 0 THEN Some(<<i, self[i]>>)
  ELSE last_nonzero_byte(self, i - 1)

RECURSIVE highest_bit(_, _, _)
highest_bit(index, byte, bit) ==
  IF bit < 0 THEN None
  ELSE IF MaskBit(byte, bit) # 0 THEN Some(8 * index + bit)
  ELSE highest_bit(index, byte, bit - 1)

height_lowest_bit(self) ==
  LET found == last_nonzero_byte(self, HASH_SIZE_BYTES - 1)
  IN  IF found = None THEN None ELSE Some(8 * found[1][1])

height(self) ==
  LET found == last_nonzero_byte(self, HASH_SIZE_BYTES - 1)
  IN  IF found = None THEN None
      ELSE highest_bit(found[1][1], found[1][2], 7)

(***************************************************************************)
(* flip_bit: positions at or beyond HASH_SIZE return early.                *)
(***************************************************************************)
flip_bit_unchecked(self, position) ==
  LET i == (position \div 8) % HASH_SIZE_BYTES
  IN  [self EXCEPT ![i] = ByteXor(self[i], Shl(1, position % 8))]

flip_bit(self, position) ==
  IF position >= HASH_SIZE THEN self
  ELSE [self EXCEPT ![position \div 8] =
                      ByteXor(self[position \div 8], Shl(1, position % 8))]

(***************************************************************************)
(* The bit iterators.  An iterator is [kind, hash, index, rev]; a call of  *)
(* next or next_back yields the iterator after the call and the item.      *)
(* The eight implementations are the same two loops, which differ in the   *)
(* bit value they look for (zero = TRUE for the Zeroes kinds).             *)
(***************************************************************************)
zeroes(self) == [kind |-> "Zeroes", hash |-> self, index |-> 0, rev |-> HASH_SIZE]

ones(self) == [kind |-> "Ones", hash |-> self, index |-> 0, rev |-> HASH_SIZE]

into_zeroes(self) == [kind |-> "IntoZeroes", hash |-> self, index |-> 0, rev |-> HASH_SIZE]

into_ones(self) == [kind |-> "IntoOnes", hash |-> self, index |-> 0, rev |-> HASH_SIZE]

\* The loops of next and next_back stop at the first position between the
\* cursors whose bit has the value looked for, or when the cursors meet.  The
\* position a loop stops at is the least (greatest) such position, and the
\* cursor it moves ends just past it; with no such position the moved cursor
\* ends on the other one.
Matches(self, zero, p) ==
  (MaskBit(self.hash[p \div 8], p % 8) = 0) = zero

\* while self.index < self.rev { test the bit at index; index += 1; return on a match }
scan_forward(self, zero) ==
  IF \E p \in self.index .. self.rev - 1 : Matches(self, zero, p)
  THEN LET value_at_index ==
             CHOOSE p \in self.index .. self.rev - 1 :
               /\ Matches(self, zero, p)
               /\ \A q \in self.index .. p - 1 : ~Matches(self, zero, q)
           stepped == [self EXCEPT !.index = value_at_index + 1]
       IN  [self |-> stepped, item |-> Some(stepped.index - 1)]
  ELSE [self |-> [self EXCEPT !.index = IF self.index < self.rev THEN self.rev ELSE self.index],
        item |-> None]

\* while self.index < self.rev { test the bit at rev-1; rev -= 1; return on a match }
scan_backward(self, zero) ==
  IF \E p \in self.index .. self.rev - 1 : Matches(self, zero, p)
  THEN LET value_at_rev ==
             CHOOSE p \in self.index .. self.rev - 1 :
               /\ Matches(self, zero, p)
               /\ \A q \in p + 1 .. self.rev - 1 : ~Matches(self, zero, q)
           stepped == [self EXCEPT !.rev = value_at_rev]
       IN  [self |-> stepped, item |-> Some(stepped.rev)]
  ELSE [self |-> [self EXCEPT !.rev = IF self.index < self.rev THEN self.index ELSE self.rev],
        item |-> None]

\* A forward scan that reports the cursor after its increment.
scan_forward_off_by_one(self, zero) ==
  LET found == scan_forward(self, zero)
  IN  IF found.item = None THEN found
      ELSE [self |-> found.self, item |-> Some(found.self.index)]

\* A backward scan bounded by the start of the hash instead of the forward cursor.
scan_backward_unbounded(self, zero) ==
  LET found == scan_backward([self EXCEPT !.index = 0], zero)
  IN  [self |-> [found.self EXCEPT !.index = self.index], item |-> found.item]

Zeroes_next(self) == scan_forward(self, TRUE)

Ones_next_off_by_one(self) == scan_forward_off_by_one(self, FALSE)

Ones_next(self) == scan_forward(self, FALSE)

Zeroes_next_back(self) == scan_backward(self, TRUE)

Ones_next_back_unbounded(self) == scan_backward_unbounded(self, FALSE)

Ones_next_back(self) == scan_backward(self, FALSE)

IntoZeroes_next(self) == scan_forward(self, TRUE)

IntoOnes_next(self) == scan_forward(self, FALSE)

IntoZeroes_next_back(self) == scan_backward(self, TRUE)

IntoOnes_next_back(self) == scan_backward(self, FALSE)

\* Iterator::next and DoubleEndedIterator::next_back, by the iterator's type.
next(self) ==
  CASE self.kind = "Zeroes"     -> Zeroes_next(self)
    [] self.kind = "Ones"       -> Ones_next(self)
    [] self.kind = "IntoZeroes" -> IntoZeroes_next(self)
    [] self.kind = "IntoOnes"   -> IntoOnes_next(self)

next_back(self) ==
  CASE self.kind = "Zeroes"     -> Zeroes_next_back(self)
    [] self.kind = "Ones"       -> Ones_next_back(self)
    [] self.kind = "IntoZeroes" -> IntoZeroes_next_back(self)
    [] self.kind = "IntoOnes"   -> IntoOnes_next_back(self)

(***************************************************************************)
(* Ordering: bytes compared from index 19 down to index 0.                 *)
(***************************************************************************)
RECURSIVE partial_cmp_from(_, _, _)
partial_cmp_from(self, other, i) ==
  IF i < 0 THEN None
  ELSE LET order == ByteCmp(self[i], other[i])
       IN  IF order = Less THEN Some(Less)
           ELSE IF order = Greater THEN Some(Greater)
           ELSE partial_cmp_from(self, other, i - 1)

RECURSIVE partial_cmp_little_endian(_, _, _)
partial_cmp_little_endian(self, other, i) ==
  IF i >= HASH_SIZE_BYTES THEN None
  ELSE LET order == ByteCmp(self[i], other[i])
       IN  IF order = Less THEN Some(Less)
           ELSE IF order = Greater THEN Some(Greater)
           ELSE partial_cmp_little_endian(self, other, i + 1)

partial_cmp_forward(self, other) == partial_cmp_little_endian(self, other, 0)

partial_cmp_total(self, other) ==
  LET order == partial_cmp_from(self, other, HASH_SIZE_BYTES - 1)
  IN  IF order = None THEN Some(Equal) ELSE order

partial_cmp(self, other) == partial_cmp_from(self, other, HASH_SIZE_BYTES - 1)

cmp_reversed(self, other) ==
  LET order == partial_cmp(other, self)
  IN  IF order = None THEN Equal ELSE order[1]

cmp(self, other) ==
  LET order == partial_cmp(self, other)
  IN  IF order = None THEN Equal ELSE order[1]

(***************************************************************************)
(* XOR, borrowing (&a ^ &b) and consuming (a ^ b).                         *)
(***************************************************************************)
bitxor_ref(self, rhs) ==
  [i \in 0 .. HASH_SIZE_BYTES - 1 |-> ByteXor(self[i], rhs[i])]

bitxor_or(self, rhs) ==
  [i \in 0 .. HASH_SIZE_BYTES - 1 |-> ByteXor(ByteXor(self[i], rhs[i]), ByteAnd(self[i], rhs[i]))]

bitxor(self, rhs) ==
  [i \in 0 .. HASH_SIZE_BYTES - 1 |-> ByteXor(self[i], rhs[i])]

(***************************************************************************)
(* random_at_distance: the loop over distance_ones.rev(), then the         *)
(* function.  Rev::next is next_back of the iterator it wraps.             *)
(***************************************************************************)
RECURSIVE random_at_distance_loop(_, _, _, _)
random_at_distance_loop(random_hash, distance_ones, reference, distance) ==
  LET step == IntoOnes_next_back(distance_ones)
  IN  IF step.item = None THEN random_hash
      ELSE LET flipped == flip_bit(random_hash, step.item[1])
               h == height(bitxor_ref(flipped, reference))
           IN  IF h # None /\ h[1] = distance THEN flipped
               ELSE IF h # None /\ h[1] < distance THEN flip_bit(flipped, distance)
               ELSE random_at_distance_loop(flipped, step.self, reference, distance)

random_at_distance(reference, distance) ==
  LET random_hash == random
      distance_ones == into_ones(bitxor_ref(random_hash, reference))
  IN  random_at_distance_loop(random_hash, distance_ones, reference, distance)

(***************************************************************************)
(* The hashes the operations are applied to.                               *)
(***************************************************************************)
\* Most bits a sparse sampled hash has set (or, for its complement, clear).
MaxOnes == 3

\* The bit positions the unit tests use (0, 3, 159; 9; 5, 20, 40; 30).
SampleBits == {0, 3, 5, 9, 20, 30, 40, 159}

\* Positions handed to flip_bit: the sampled ones and some beyond the hash.
FlipPositions == SampleBits \cup {HASH_SIZE, HASH_SIZE + 1, HASH_SIZE + 96}

IsSet(h, p) == Bit(h[p \div 8], p % 8) = 1

FromBits(S) ==
  [i \in 0 .. HASH_SIZE_BYTES - 1 |->
     LET T(k) == IF (8 * i + k) \in S THEN 2 ^ k ELSE 0 IN T(0) + T(1) + T(2) + T(3) + T(4) + T(5) + T(6) + T(7)]

Complement(h) == [i \in 0 .. HASH_SIZE_BYTES - 1 |-> 255 - h[i]]

OnesCount(h) == Cardinality({p \in 0 .. HASH_SIZE - 1 : IsSet(h, p)})

SampledOnes(h) == Cardinality({p \in SampleBits : IsSet(h, p)})

SparseIds == {FromBits(S) : S \in {T \in SUBSET SampleBits : Cardinality(T) <= MaxOnes}}

\* Dense hashes: every bit clear, and every byte 0xA5 (half of the bits set).
DenseIds == {blank, [i \in 0 .. HASH_SIZE_BYTES - 1 |-> 165]}

Kinds == {"Zeroes", "Ones", "IntoZeroes", "IntoOnes"}

LooksForZero(kind) == kind \in {"Zeroes", "IntoZeroes"}

new_iterator(kind, h) ==
  CASE kind = "Zeroes"     -> zeroes(h)
    [] kind = "Ones"       -> ones(h)
    [] kind = "IntoZeroes" -> into_zeroes(h)
    [] kind = "IntoOnes"   -> into_ones(h)

(***************************************************************************)
(* State.  a, b: the hashes operated on.  op: the last operation.  out:    *)
(* what it returned.  iter: a bit iterator; front, back: the items its     *)
(* next and next_back calls have returned; ended: a call returned None.    *)
(***************************************************************************)
VARIABLES a, b, op, out, iter, front, back, ended

vars == <<a, b, op, out, iter, front, back, ended>>

NoIterator == <<iter, front, back, ended>>

NoOperands == <<a, b>>

Init ==
  /\ a \in SparseIds
  /\ b = blank
  /\ op = "new"
  /\ out = None
  /\ iter = ones(blank)
  /\ front = << >>
  /\ back = << >>
  /\ ended = FALSE

\* tests::xor: both forms on the same operands.
Xor ==
  /\ op' = "xor"
  /\ out' = [reference_xor |-> bitxor_ref(a, b), value_xor |-> bitxor(a, b)]
  /\ UNCHANGED <<NoOperands, NoIterator>>

\* a.partial_cmp(&b) and a.cmp(&b).
Compare ==
  /\ op' = "compare"
  /\ out' = [partial_cmp |-> partial_cmp(a, b), cmp |-> cmp(a, b)]
  /\ UNCHANGED <<NoOperands, NoIterator>>

\* a.height().
Height ==
  /\ op' = "height"
  /\ out' = [height |-> height(a)]
  /\ UNCHANGED <<NoOperands, NoIterator>>

\* a.flip_bit(position): the one mutator.
FlipBit ==
  \E position \in FlipPositions :
    /\ SampledOnes(flip_bit(a, position)) <= MaxOnes
    /\ a' = flip_bit(a, position)
    /\ op' = "flip_bit"
    /\ out' = [before |-> a, position |-> position]
    /\ UNCHANGED <<b, NoIterator>>

\* tests::random_generation: two successive calls of random().
RandomGeneration ==
  /\ op' = "random_generation"
  /\ out' = [first |-> random, second |-> random]
  /\ UNCHANGED <<NoOperands, NoIterator>>

\* tests::random_at_a_distance, with a as the reference.
RandomAtDistance ==
  \E distance \in SampleBits :
    /\ op' = "random_at_distance"
    /\ out' = [distance |-> distance, new_hash |-> random_at_distance(a, distance)]
    /\ UNCHANGED <<NoOperands, NoIterator>>

\* The operations on one hash.
Next == Height \/ FlipBit \/ RandomGeneration \/ RandomAtDistance

Spec == Init /\ [][Next]_vars

\* The operations on two hashes.
InitPair ==
  /\ a \in SparseIds
  /\ b \in SparseIds
  /\ op = "new"
  /\ out = None
  /\ iter = ones(blank)
  /\ front = << >>
  /\ back = << >>
  /\ ended = FALSE

NextPair == Xor \/ Compare

SpecPair == InitPair /\ [][NextPair]_vars

(***************************************************************************)
(* The iterator specification: one iterator of any kind over a hash with   *)
(* few matching positions or over a dense hash, driven from both ends.     *)
(***************************************************************************)
MatchCount(kind, h) ==
  IF LooksForZero(kind) THEN HASH_SIZE - OnesCount(h) ELSE OnesCount(h)

InitIter ==
  /\ a = blank
  /\ b = blank
  /\ op = "new"
  /\ out = None
  /\ \E kind \in Kinds :
       \E h \in SparseIds \cup {Complement(s) : s \in SparseIds} \cup DenseIds :
         /\ MatchCount(kind, h) <= MaxOnes \/ h \in DenseIds
         /\ iter = new_iterator(kind, h)
  /\ front = << >>
  /\ back = << >>
  /\ ended = FALSE

IterNext ==
  LET call == next(iter)
  IN  /\ iter' = call.self
      /\ op' = "next"
      /\ out' = call.item
      /\ front' = front \o call.item
      /\ ended' = (ended \/ call.item = None)
      /\ UNCHANGED <<NoOperands, back>>

IterNextBack ==
  LET call == next_back(iter)
  IN  /\ iter' = call.self
      /\ op' = "next_back"
      /\ out' = call.item
      /\ back' = back \o call.item
      /\ ended' = (ended \/ call.item = None)
      /\ UNCHANGED <<NoOperands, front>>

NextIter == IterNext \/ IterNextBack

SpecIter == InitIter /\ [][NextIter]_vars

(***************************************************************************)
(* Properties.                                                             *)
(***************************************************************************)
Range(seq) == {seq[i] : i \in 1 .. Len(seq)}

Ascending(seq) == \A i \in 1 .. Len(seq) - 1 : seq[i] < seq[i + 1]

Descending(seq) == \A i \in 1 .. Len(seq) - 1 : seq[i] > seq[i + 1]

\* The positions of a hash whose bit has the value an iterator kind looks for.
MatchingBits(kind, h) ==
  {p \in 0 .. HASH_SIZE - 1 : IsSet(h, p) # LooksForZero(kind)}

\* The highest byte index in which two different hashes differ.
HighestDifference(x, y) ==
  CHOOSE k \in 0 .. HASH_SIZE_BYTES - 1 :
    /\ x[k] # y[k]
    /\ \A j \in k + 1 .. HASH_SIZE_BYTES - 1 : x[j] = y[j]

\* C1: random_at_distance(reference, d) returns a hash x with
\* height(x XOR reference) = d exactly, for every reference and every d.
C1_ExactDistance ==
  op = "random_at_distance" =>
    height(bitxor(a, out.new_hash)) = Some(out.distance)

\* C2: two successive calls of random() return two different hashes.
C2_RandomDiffers ==
  op = "random_generation" => out.first # out.second

\* C3: a XOR a is blank and a XOR blank is a, in the borrowing and in the
\* consuming form, and the two forms return the same hash.
C3_XorIdentities ==
  op = "xor" =>
    /\ out.reference_xor = out.value_xor
    /\ a = b => (out.reference_xor = blank /\ out.value_xor = blank)
    /\ b = blank => (out.reference_xor = a /\ out.value_xor = a)

C3_Witness ==
  /\ op = "xor"
  /\ a = FromBits({5, 20, 40})
  /\ b = a
  /\ out.reference_xor = blank
  /\ out.value_xor = blank

\* C4: two different hashes are ordered by the highest-index byte in which
\* they differ, by partial_cmp and by cmp alike: Less when a's byte is the
\* smaller one, Greater when it is the larger one.
C4_OrderByHighestByte ==
  (op = "compare" /\ a # b) =>
    LET k == HighestDifference(a, b)
        expected == IF a[k] < b[k] THEN Less ELSE Greater
    IN  /\ out.cmp = expected
        /\ out.partial_cmp = Some(expected)

C4_Witness ==
  /\ op = "compare"
  /\ a[HASH_SIZE_BYTES - 1] > b[HASH_SIZE_BYTES - 1]
  /\ a[0] < b[0]
  /\ out.cmp = Greater
  /\ out.partial_cmp = Some(Greater)

\* C5: for equal hashes partial_cmp returns None while cmp returns Equal,
\* and partial_cmp returns None only for equal hashes.
C5_EqualIsUnordered ==
  op = "compare" =>
    /\ a = b => (out.partial_cmp = None /\ out.cmp = Equal)
    /\ out.partial_cmp = None => a = b

C5_Witness ==
  /\ op = "compare"
  /\ a = b
  /\ a # blank
  /\ out.partial_cmp = None
  /\ out.cmp = Equal

\* C6: height is None exactly for the blank hash; otherwise it is the
\* position h in 0..159 of a set bit above which every bit is clear.
C6_HeightIsTopBit ==
  op = "height" =>
    /\ (out.height = None) <=> (a = blank)
    /\ out.height # None =>
         LET h == out.height[1]
         IN  /\ h \in 0 .. HASH_SIZE - 1
             /\ IsSet(a, h)
             /\ \A p \in h + 1 .. HASH_SIZE - 1 : ~IsSet(a, p)

C6_Witness ==
  /\ op = "height"
  /\ a = FromBits({0, 3, 159})
  /\ out.height = Some(159)

\* C7: flip_bit(p) with p < 160 toggles bit p and no other bit, so that a
\* second flip_bit(p) restores the hash; with p >= 160 the hash is unchanged.
C7_FlipTogglesOneBit ==
  op = "flip_bit" =>
    /\ out.position < HASH_SIZE =>
         \A p \in 0 .. HASH_SIZE - 1 :
           IsSet(a, p) = (IsSet(out.before, p) # (p = out.position))
    /\ out.position >= HASH_SIZE => a = out.before
    /\ flip_bit(a, out.position) = out.before

C7_Witness ==
  /\ op = "flip_bit"
  /\ out.before = blank
  /\ out.position = 9
  /\ a[1] = 2

\* C8: as long as only next() has moved a cursor, the items returned are in
\* strictly ascending order, are matching positions, skip no matching
\* position below the last one returned, and None comes exactly when every
\* matching position has been returned.
C8_ForwardYieldsMatches ==
  iter.rev = HASH_SIZE =>
    LET matching == MatchingBits(iter.kind, iter.hash)
    IN  /\ Ascending(front)
        /\ Range(front) \subseteq matching
        /\ front # << >> =>
             \A p \in matching : p < front[Len(front)] => p \in Range(front)
        /\ ended => (Range(front) = matching /\ out = None)
        /\ op = "next" /\ out # None => out = Some(front[Len(front)])

C8_Witness ==
  /\ iter.kind = "Ones"
  /\ iter.hash = FromBits({5, 20, 40})
  /\ front = <<5, 20, 40>>
  /\ back = << >>
  /\ op = "next"
  /\ out = None
  /\ ended

\* C9: under any interleaving of next() and next_back() the cursors do not
\* cross, next()'s items ascend, next_back()'s items descend, no position is
\* returned twice, and once a call has returned None the items returned are
\* exactly the matching positions and every call returns None.
C9_CursorsConverge ==
  /\ 0 <= iter.index
  /\ iter.index <= iter.rev
  /\ iter.rev <= HASH_SIZE
  /\ Ascending(front)
  /\ Descending(back)
  /\ Cardinality(Range(front) \cup Range(back)) = Len(front) + Len(back)
  /\ ended =>
       /\ Range(front) \cup Range(back) = MatchingBits(iter.kind, iter.hash)
       /\ out = None

C9_Witness ==
  /\ iter.kind = "IntoOnes"
  /\ iter.hash = FromBits({5, 20, 40})
  /\ front = <<5>>
  /\ back = <<40, 20>>
  /\ op = "next_back"
  /\ ended

\* C10: if b is not blank and a is blank or lower than b (height(a) <
\* height(b)), then cmp(a, b) is Less.
C10_HeightOrdersCmp ==
  (/\ op = "compare"
   /\ b # blank
   /\ (a = blank \/ height(a)[1] < height(b)[1])) => out.cmp = Less

C10_Witness ==
  /\ op = "compare"
  /\ a # blank
  /\ b # blank
  /\ height(a)[1] < height(b)[1]
  /\ a[0] > b[0]
  /\ out.cmp = Less

====
